---- MODULE Spec2Model ----
(***************************************************************************)
(* A model of deno_serial (src/main.ts): open(), the SerialPort class and  *)
(* its read_line() generator, running against a POSIX kernel and libc      *)
(* reached through Deno's non-blocking FFI.                                *)
(*                                                                         *)
(* The FFI results of type isize and usize are taken as JavaScript numbers. *)
(*                                                                         *)
(* Representation of JavaScript values:                                    *)
(*   - a Uint8Array / ArrayBuffer is a sequence of bytes, index 1 is byte  *)
(*     offset 0;                                                           *)
(*   - a string is the sequence of its UTF-16 code units;                  *)
(*   - an Int32 (the operand and result type of the bitwise operators) is  *)
(*     an integer in -2^31 .. 2^31-1;                                      *)
(*   - an unsigned 32-bit number, which may exceed 2^31-1, is the sequence *)
(*     <<b3, b2, b1, b0>> of its four base-256 digits, most significant    *)
(*     first.                                                              *)
(***************************************************************************)
EXTENDS Integers, Sequences, FiniteSets, TLC

(***************************************************************************)
(* Program constants (src/main.ts:24-42).                                  *)
(***************************************************************************)
TCSANOW == 0
CSIZE == 48        \* 0o000060
CS8 == 48          \* 0o000060
CSTOPB == 64       \* 0o000100
CREAD == 128       \* 0o000200
PARENB == 256      \* 0o000400
CLOCAL == 2048     \* 0o004000
CRTSCTS == <<128, 0, 0, 0>>   \* 0o20000000000 = 2^31, as an unsigned word
VTIME == 5
VMIN == 6
TTY_SIZE == 100    \* new ArrayBuffer(100)
DefaultBufferSize == 255   \* this.options.buffer_size ?? 255
undefined == -1    \* an absent optional buffer_size

\* The values of the Baudrate enum (src/main.ts:44-63).
Baudrate ==
  { 13, 14, 15,                                 \* B9600 B19200 B38400
    4097, 4098, 4099, 4100, 4101, 4102, 4103,   \* B57600 .. B921600
    4104, 4105, 4106, 4107, 4108, 4109, 4110, 4111 }  \* B1000000 .. B4000000
B115200 == 4098

\* The message prefixes of the errors the code throws, under the names the
\* specification gives to the error kinds.
OpenFailed == "Couldn't open"
GetAttributesFailed == "tcgetattr"
SetAttributesFailed == "tcsetattr"
IoErrorRead == "Error while reading"
IoErrorWrite == "Error while writing"
IoError == {IoErrorRead, IoErrorWrite}
ShortWrite == "Couldn't write data"
CloseError == "Error while closing"
ClosedHandle == "ClosedHandle"   \* no statement of the code throws this

(***************************************************************************)
(* Bitwise operators on Int32, in two's complement.                        *)
(***************************************************************************)
\* ToInt32 of an unsigned word.
ToInt32(w) ==
  (IF w[1] >= 128 THEN w[1] - 256 ELSE w[1]) * 16777216
    + w[2] * 65536 + w[3] * 256 + w[4]

\* ~a
BitNot(a) == (-1) - a

RECURSIVE BitAnd(_, _)
\* a & b
BitAnd(a, b) ==
  IF a = 0 \/ b = 0 THEN 0
  ELSE IF a = -1 THEN b
  ELSE IF b = -1 THEN a
  ELSE (a % 2) * (b % 2) + 2 * BitAnd(a \div 2, b \div 2)

\* a | b
BitOr(a, b) == BitNot(BitAnd(BitNot(a), BitNot(b)))

(***************************************************************************)
(* DataView over the termios buffer.                                       *)
(***************************************************************************)
\* Base-256 digit k (0 = least significant) of ToUint32(v).
ByteOf(v, k) == (v \div (256 ^ k)) % 256

setUint32_mut(buf, off, v, le) == buf

\* dataView.setUint32(off, v, littleEndian)
setUint32(buf, off, v, le) ==
  [i \in 1..Len(buf) |->
     IF i - 1 >= off /\ i - 1 <= off + 3
       THEN ByteOf(v, IF le THEN i - 1 - off ELSE 3 - (i - 1 - off))
       ELSE buf[i]]

\* dataView.getUint32(off, littleEndian), as an unsigned word
getUint32(buf, off, le) ==
  IF le THEN <<buf[off + 4], buf[off + 3], buf[off + 2], buf[off + 1]>>
        ELSE <<buf[off + 1], buf[off + 2], buf[off + 3], buf[off + 4]>>

setUint8_mut(buf, off, v) ==
  [i \in 1..Len(buf) |-> IF i - 1 = off THEN v % 128 ELSE buf[i]]

\* dataView.setUint8(off, v): stores ToUint8(v)
setUint8(buf, off, v) ==
  [i \in 1..Len(buf) |-> IF i - 1 = off THEN v % 256 ELSE buf[i]]

\* new ArrayBuffer(n) / new Uint8Array(n): n zero bytes
ZeroBuffer(n) == [i \in 1..n |-> 0]

(***************************************************************************)
(* open(): the edits of the termios image between cfsetspeed and tcsetattr *)
(***************************************************************************)
ClearCRTSCTS_mut(cflag) == cflag

\* cflag &= ~CRTSCTS
ClearCRTSCTS(cflag) == BitAnd(cflag, BitNot(ToInt32(CRTSCTS)))

\* The control-flags computation of lines 244-250.
cflag_edit(word) ==
  LET c1 == BitAnd(ToInt32(word), BitNot(PARENB))
      c2 == BitAnd(c1, BitNot(CSTOPB))
      c3 == BitAnd(c2, BitNot(CSIZE))
      c4 == BitOr(c3, CS8)
      c5 == ClearCRTSCTS(c4)
  IN  BitOr(c5, BitOr(CREAD, CLOCAL))

\* Lines 239-257: everything open() does to the image after cfsetspeed.
tty_edit(tty, options, le) ==
  LET t1 == setUint32(tty, 0, 0, le)
      t2 == setUint32(t1, 4, 0, le)
      t3 == setUint32(t2, 8, cflag_edit(getUint32(t2, 8, le)), le)
      t4 == setUint32(t3, 12, 0, le)
      t5 == setUint8(t4, 17 + VTIME, options.timeout_in_deciseconds)
  IN  setUint8(t5, 17 + VMIN, options.minimum_number_of_chars_read)

(***************************************************************************)
(* TextDecoder / TextEncoder (UTF-8) and String.prototype.split            *)
(***************************************************************************)
RECURSIVE utf8_decode(_, _, _, _, _, _)
\* The UTF-8 decoder of the Encoding standard with replacement on error:
\* cp is the code point under construction, need the continuation bytes
\* still expected, lo..hi the range allowed for the next one. A byte that
\* breaks a sequence is processed again as a first byte.
utf8_decode(bytes, i, cp, need, lo, hi) ==
  IF i > Len(bytes) THEN (IF need # 0 THEN <<65533>> ELSE <<>>)
  ELSE LET b == bytes[i] IN
    IF need = 0 THEN
      IF b <= 127 THEN <<b>> \o utf8_decode(bytes, i + 1, 0, 0, 128, 191)
      ELSE IF b >= 194 /\ b <= 223
        THEN utf8_decode(bytes, i + 1, b % 32, 1, 128, 191)
      ELSE IF b >= 224 /\ b <= 239
        THEN utf8_decode(bytes, i + 1, b % 16, 2,
                         IF b = 224 THEN 160 ELSE 128,
                         IF b = 237 THEN 159 ELSE 191)
      ELSE IF b >= 240 /\ b <= 244
        THEN utf8_decode(bytes, i + 1, b % 8, 3,
                         IF b = 240 THEN 144 ELSE 128,
                         IF b = 244 THEN 143 ELSE 191)
      ELSE <<65533>> \o utf8_decode(bytes, i + 1, 0, 0, 128, 191)
    ELSE IF b < lo \/ b > hi
      THEN <<65533>> \o utf8_decode(bytes, i, 0, 0, 128, 191)
    ELSE LET cp2 == cp * 64 + (b % 64) IN
      IF need = 1 THEN <<cp2>> \o utf8_decode(bytes, i + 1, 0, 0, 128, 191)
      ELSE utf8_decode(bytes, i + 1, cp2, need - 1, 128, 191)

RECURSIVE ToCodeUnits(_)
\* Code points to UTF-16 code units (a surrogate pair above U+FFFF).
ToCodeUnits(cps) ==
  IF cps = <<>> THEN <<>>
  ELSE LET c == Head(cps) IN
    (IF c < 65536 THEN <<c>>
     ELSE <<55296 + ((c - 65536) \div 1024), 56320 + ((c - 65536) % 1024)>>)
    \o ToCodeUnits(Tail(cps))

\* new TextDecoder().decode(bytes): UTF-8, not fatal, a leading U+FEFF
\* (byte order mark) is dropped.
TextDecode(bytes) ==
  LET cps == utf8_decode(bytes, 1, 0, 0, 128, 191)
  IN  ToCodeUnits(IF cps # <<>> /\ Head(cps) = 65279 THEN Tail(cps) ELSE cps)

\* The UTF-8 bytes of one code point.
utf8_bytes(c) ==
  IF c < 128 THEN <<c>>
  ELSE IF c < 2048 THEN <<192 + (c \div 64), 128 + (c % 64)>>
  ELSE IF c < 65536
    THEN <<224 + (c \div 4096), 128 + ((c \div 64) % 64), 128 + (c % 64)>>
  ELSE <<240 + (c \div 262144), 128 + ((c \div 4096) % 64),
         128 + ((c \div 64) % 64), 128 + (c % 64)>>

RECURSIVE TextEncode(_)
\* new TextEncoder().encode(str): a surrogate pair is one code point, a lone
\* surrogate is encoded as U+FFFD.
TextEncode(str) ==
  IF str = <<>> THEN <<>>
  ELSE LET c == Head(str) IN
    IF c >= 55296 /\ c <= 56319 /\ Len(str) >= 2
         /\ str[2] >= 56320 /\ str[2] <= 57343
      THEN utf8_bytes(65536 + (c - 55296) * 1024 + (str[2] - 56320))
             \o TextEncode(Tail(Tail(str)))
    ELSE IF c >= 55296 /\ c <= 57343
      THEN utf8_bytes(65533) \o TextEncode(Tail(str))
    ELSE utf8_bytes(c) \o TextEncode(Tail(str))

NL == 10   \* "\n"

RECURSIVE split(_, _)
\* str.split(sep) for a separator of one code unit: the segments between
\* the separators, so one more segment than there are separators.
split(str, sep) ==
  IF \A i \in 1..Len(str) : str[i] # sep THEN <<str>>
  ELSE LET k == CHOOSE i \in 1..Len(str) :
                  str[i] = sep /\ \A j \in 1..(i - 1) : str[j] # sep
       IN  <<SubSeq(str, 1, k - 1)>> \o split(SubSeq(str, k + 1, Len(str)), sep)

\* ibuffer.subarray(begin, end)
subarray(buf, begin, end) == SubSeq(buf, begin + 1, end)

\* is_platform_little_endian(): 256 is stored little-endian in two bytes
\* and read back as a native Int16.
is_platform_little_endian(hostLE) ==
  LET buffer == <<ByteOf(256, 0), ByteOf(256, 1)>>
      native == IF hostLE THEN buffer[1] + 256 * buffer[2]
                          ELSE 256 * buffer[1] + buffer[2]
  IN  native = 256

PopLast_mut(lines) == <<>>

\* lines.pop(): the array without its last element
PopRest(lines) == SubSeq(lines, 1, Len(lines) - 1)

\* the value lines.pop() returns
PopLast(lines) == lines[Len(lines)]


(***************************************************************************)
(* Bounds of the model.                                                    *)
(***************************************************************************)
NTasks == 2      \* concurrent callers (async functions of the embedding program)
NThreads == 2    \* threads on which the runtime runs non-blocking FFI calls
NFds == 2        \* descriptors the kernel can hand out
MaxOps == 4      \* operations started in one behaviour
MaxIters == 1    \* read_line() generators created in one behaviour
MaxRx == 3       \* bytes the device receives in one behaviour (enumerated inputs)
MaxOpsShort == 3 \* operations started by two callers, or on two threads
MaxReads == 3    \* read_string() calls a read_line() generator counts

Tasks == 1..NTasks
Threads == 1..NThreads
\* Descriptors 0, 1 and 2 are the standard streams.
Fds == 3..(2 + NFds)
\* A behaviour creates at most one SerialPort per operation.
PortIds == 1..MaxOps
IterIds == 1..MaxIters

O_RDWR == 2            \* 0x2
O_NOCTTY == 256        \* 0x100
O_SYNC == 1052672      \* 0x101000
NoFd == -2             \* the descriptor column of an FFI call that takes none
null == 0              \* the null pointer

DevicePath == "/dev/ttyUSB0"
MissingPath == "/dev/missing"

VARIABLES
  hostLE,        \* the host is little-endian
  fdtable,       \* kernel: descriptor -> open?
  dev_tty,       \* kernel: the termios image of the serial device
  rx,            \* kernel: bytes received by the device and not yet read
  errno,         \* libc: the thread-local errno of each FFI thread
  ports,         \* the SerialPort objects, in creation order: [fd, options]
  iters,         \* the read_line() generator objects
  task,          \* the callers: position, locals and last outcome of each
  jobs,          \* the microtask queue: callers whose continuation is queued
  draining,      \* the event loop is running the microtask queue
  close_issued,  \* history: OS close calls issued through each SerialPort
  close_rets,    \* history: the results those calls returned
  nops           \* operations started so far

vars == <<hostLE, fdtable, dev_tty, rx, errno, ports, iters, task, jobs,
          draining, close_issued, close_rets, nops>>

(***************************************************************************)
(* The kernel and libc behind the FFI symbols (src/main.ts:72-121). Each   *)
(* operator gives the set of outcomes of one call: the value returned and  *)
(* the errno a failure leaves in the calling thread.                       *)
(***************************************************************************)
E == [ENOENT |-> 2, EIO |-> 5, EBADF |-> 9, EACCES |-> 13, EBUSY |-> 16,
      EINVAL |-> 22, EMFILE |-> 24]

Valid(fd) == fd \in Fds /\ fdtable[fd]

Min(a, b) == IF a <= b THEN a ELSE b

\* The C strings open(2) may read at the address of the encoded path: line
\* 219 encodes the path without a terminating NUL, so the string ends where
\* the memory behind the buffer has its first zero byte: right behind the
\* path, or after some other bytes.
CString(file) == {file, file \o "?"}

\* open(2): the lowest free descriptor; a device that exists may refuse to
\* be opened.
os_open(path) ==
  IF path # DevicePath THEN {[ret |-> -1, errno |-> E.ENOENT]}
  ELSE (IF \E fd \in Fds : ~fdtable[fd]
          THEN {[ret |-> CHOOSE fd \in Fds :
                           ~fdtable[fd] /\ \A g \in Fds : g < fd => fdtable[g],
                 errno |-> 0]}
          ELSE {[ret |-> -1, errno |-> E.EMFILE]})
       \cup {[ret |-> -1, errno |-> E.EACCES], [ret |-> -1, errno |-> E.EBUSY]}

\* close(2): the descriptor is released even when an error is reported.
os_close(fd) ==
  IF Valid(fd) THEN {[ret |-> 0, errno |-> 0], [ret |-> -1, errno |-> E.EIO]}
  ELSE {[ret |-> -1, errno |-> E.EBADF]}

\* read(2): up to count of the pending bytes, none on a timeout.
os_read(fd, count) ==
  IF Valid(fd)
    THEN {[ret |-> n, errno |-> 0] : n \in 0..Min(count, Len(rx))}
           \cup {[ret |-> -1, errno |-> E.EIO]}
    ELSE {[ret |-> -1, errno |-> E.EBADF]}

\* write(2): all of the bytes, or fewer.
os_write(fd, count) ==
  IF Valid(fd)
    THEN {[ret |-> n, errno |-> 0] : n \in 0..count}
           \cup {[ret |-> -1, errno |-> E.EIO]}
    ELSE {[ret |-> -1, errno |-> E.EBADF]}

os_tcgetattr(fd) ==
  IF Valid(fd) THEN {[ret |-> 0, errno |-> 0], [ret |-> -1, errno |-> E.EIO]}
  ELSE {[ret |-> -1, errno |-> E.EBADF]}

os_tcsetattr(fd) ==
  IF Valid(fd) THEN {[ret |-> 0, errno |-> 0], [ret |-> -1, errno |-> E.EIO]}
  ELSE {[ret |-> -1, errno |-> E.EBADF]}

\* The speeds glibc knows: <<the B constant, the rate in baud>>.
Speeds ==
  { <<0, 0>>, <<1, 50>>, <<2, 75>>, <<3, 110>>, <<4, 134>>, <<5, 150>>,
    <<6, 200>>, <<7, 300>>, <<8, 600>>, <<9, 1200>>, <<10, 1800>>,
    <<11, 2400>>, <<12, 4800>>, <<13, 9600>>, <<14, 19200>>, <<15, 38400>>,
    <<4097, 57600>>, <<4098, 115200>>, <<4099, 230400>>, <<4100, 460800>>,
    <<4101, 500000>>, <<4102, 576000>>, <<4103, 921600>>, <<4104, 1000000>>,
    <<4105, 1152000>>, <<4106, 1500000>>, <<4107, 2000000>>,
    <<4108, 2500000>>, <<4109, 3000000>>, <<4110, 3500000>>,
    <<4111, 4000000>> }

CBAUD_CBAUDEX == 4111            \* CBAUD | CBAUDEX, 0o010017
IBAUD0 == <<128, 0, 0, 0>>       \* 0o20000000000

\* A 32-bit field of struct termios at byte offset off, in host byte order.
LoadWord(tty, off) ==
  ToInt32(IF hostLE THEN <<tty[off + 4], tty[off + 3], tty[off + 2], tty[off + 1]>>
          ELSE <<tty[off + 1], tty[off + 2], tty[off + 3], tty[off + 4]>>)

StoreWord(tty, off, v) ==
  [i \in 1..Len(tty) |->
     IF i > off /\ i <= off + 4
       THEN ByteOf(v, IF hostLE THEN i - off - 1 ELSE 3 - (i - off - 1))
       ELSE tty[i]]

\* cfsetispeed(3): c_ispeed (offset 52) takes the speed; speed 0 sets IBAUD0
\* in c_iflag (offset 0), another speed clears it and replaces the speed
\* bits of c_cflag (offset 8).
cfsetispeed(tty, speed) ==
  LET t1 == StoreWord(tty, 52, speed) IN
  IF speed = 0
    THEN StoreWord(t1, 0, BitOr(LoadWord(t1, 0), ToInt32(IBAUD0)))
    ELSE LET t2 == StoreWord(t1, 0,
                     BitAnd(LoadWord(t1, 0), BitNot(ToInt32(IBAUD0))))
         IN  StoreWord(t2, 8,
               BitOr(BitAnd(LoadWord(t2, 8), BitNot(CBAUD_CBAUDEX)), speed))

\* cfsetospeed(3): c_ospeed (offset 56) takes the speed, which replaces the
\* speed bits of c_cflag.
cfsetospeed(tty, speed) ==
  LET t1 == StoreWord(tty, 56, speed) IN
  StoreWord(t1, 8, BitOr(BitAnd(LoadWord(t1, 8), BitNot(CBAUD_CBAUDEX)), speed))

\* cfsetspeed(3): a speed given as B constant or as rate in baud is looked up
\* and set as input and output speed; another value fails with EINVAL and
\* leaves the image alone.
libc_cfsetspeed(tty, speed) ==
  IF \E s \in Speeds : speed = s[1] \/ speed = s[2]
    THEN LET b == (CHOOSE s \in Speeds : speed = s[1] \/ speed = s[2])[1]
         IN  {[ret |-> 0, errno |-> 0,
               tty |-> cfsetospeed(cfsetispeed(tty, b), b)]}
    ELSE {[ret |-> -1, errno |-> E.EINVAL, tty |-> tty]}

\* The messages of strerror(3) for the errors 0..133.
StrerrorTexts ==
  << "Success", "Operation not permitted", "No such file or directory",
     "No such process", "Interrupted system call", "Input/output error",
     "No such device or address", "Argument list too long",
     "Exec format error", "Bad file descriptor", "No child processes",
     "Resource temporarily unavailable", "Cannot allocate memory",
     "Permission denied", "Bad address", "Block device required",
     "Device or resource busy", "File exists", "Invalid cross-device link",
     "No such device", "Not a directory", "Is a directory",
     "Invalid argument", "Too many open files in system",
     "Too many open files", "Inappropriate ioctl for device",
     "Text file busy", "File too large", "No space left on device",
     "Illegal seek", "Read-only file system", "Too many links",
     "Broken pipe", "Numerical argument out of domain",
     "Numerical result out of range", "Resource deadlock avoided",
     "File name too long", "No locks available", "Function not implemented",
     "Directory not empty", "Too many levels of symbolic links",
     "Unknown error 41", "No message of desired type", "Identifier removed",
     "Channel number out of range", "Level 2 not synchronized",
     "Level 3 halted", "Level 3 reset", "Link number out of range",
     "Protocol driver not attached", "No CSI structure available",
     "Level 2 halted", "Invalid exchange", "Invalid request descriptor",
     "Exchange full", "No anode", "Invalid request code", "Invalid slot",
     "Unknown error 58", "Bad font file format", "Device not a stream",
     "No data available", "Timer expired", "Out of streams resources",
     "Machine is not on the network", "Package not installed",
     "Object is remote", "Link has been severed", "Advertise error",
     "Srmount error", "Communication error on send", "Protocol error",
     "Multihop attempted", "RFS specific error", "Bad message",
     "Value too large for defined data type", "Name not unique on network",
     "File descriptor in bad state", "Remote address changed",
     "Can not access a needed shared library",
     "Accessing a corrupted shared library",
     ".lib section in a.out corrupted",
     "Attempting to link in too many shared libraries",
     "Cannot exec a shared library directly",
     "Invalid or incomplete multibyte or wide character",
     "Interrupted system call should be restarted", "Streams pipe error",
     "Too many users", "Socket operation on non-socket",
     "Destination address required", "Message too long",
     "Protocol wrong type for socket", "Protocol not available",
     "Protocol not supported", "Socket type not supported",
     "Operation not supported", "Protocol family not supported",
     "Address family not supported by protocol", "Address already in use",
     "Cannot assign requested address", "Network is down",
     "Network is unreachable", "Network dropped connection on reset",
     "Software caused connection abort", "Connection reset by peer",
     "No buffer space available", "Transport endpoint is already connected",
     "Transport endpoint is not connected",
     "Cannot send after transport endpoint shutdown",
     "Too many references: cannot splice", "Connection timed out",
     "Connection refused", "Host is down", "No route to host",
     "Operation already in progress", "Operation now in progress",
     "Stale file handle", "Structure needs cleaning",
     "Not a XENIX named type file", "No XENIX semaphores available",
     "Is a named type file", "Remote I/O error", "Disk quota exceeded",
     "No medium found", "Wrong medium type", "Operation canceled",
     "Required key not available", "Key has expired", "Key has been revoked",
     "Key was rejected by service", "Owner died", "State not recoverable",
     "Operation not possible due to RF-kill",
     "Memory page has hardware error" >>

\* strerror(3)
libc_strerror(errnum) ==
  IF errnum \in 0..(Len(StrerrorTexts) - 1) THEN StrerrorTexts[errnum + 1]
  ELSE "Unknown error " \o ToString(errnum)

(***************************************************************************)
(* Callers. A caller runs one operation at a time. Its pc names the FFI    *)
(* call it is awaiting, or the continuation of it that is queued as a      *)
(* microtask. calls and rets list the FFI calls the invocation issued and  *)
(* the values they returned; ran tells that the call it awaits has run and *)
(* ffi holds the value the call gave.                                      *)
(***************************************************************************)
NoOptions ==
  [baudrate |-> 0, timeout_in_deciseconds |-> 0,
   minimum_number_of_chars_read |-> 0, buffer_size |-> undefined]

NoResult ==
  [status |-> "none", error |-> "", text |-> "", value |-> <<>>, done |-> FALSE]

\* The value an FFI call resolves with: a number, or a pointer and the C
\* string behind it.
NoFfi == [ret |-> 0, pointer |-> null, cstring |-> ""]

IdleTask ==
  [pc |-> "idle", op |-> "none", port |-> 0, iter |-> 0, thread |-> 0,
   file |-> "", fd |-> 0, options |-> NoOptions, tty |-> <<>>, tty_os |-> <<>>,
   data |-> <<>>, ibuffer |-> <<>>, calls |-> <<>>, rets |-> <<>>,
   ran |-> FALSE, ffi |-> NoFfi, value |-> <<>>, error |-> "", oserrno |-> 0,
   errnum |-> 0, text |-> "", result |-> NoResult]

Call(name, fd, arg) == [name |-> name, fd |-> fd, arg |-> arg]

Issue_mut(tk, pc, th, call) ==
  [tk EXCEPT !.pc = pc, !.thread = th, !.calls = Append(Append(@, call), call)]

\* await library.symbols.<name>(...): the call is handed to thread th.
Issue(tk, pc, th, call) ==
  [tk EXCEPT !.pc = pc, !.thread = th, !.calls = Append(@, call)]

\* throw new Error(`<prefix>: ${await geterrnoString()}`), up to the first
\* await: errno() calls __errno_location.
Geterrno(tk, prefix, th) ==
  Issue([tk EXCEPT !.error = prefix], "errno", th,
        Call("__errno_location", NoFd, 0))

Ok(value) ==
  [status |-> "ok", error |-> "", text |-> "", value |-> value, done |-> FALSE]

Err(prefix, text) ==
  [status |-> "error", error |-> prefix, text |-> text, value |-> <<>>,
   done |-> FALSE]

Finish(tk, result) == [tk EXCEPT !.pc = "done", !.thread = 0, !.result = result]

CanStart(t) == task[t].pc \in {"idle", "done"} /\ nops < MaxOps

Invoke(op, p) == [IdleTask EXCEPT !.op = op, !.port = p]

(***************************************************************************)
(* The event loop. A non-blocking FFI call runs on a thread of the         *)
(* runtime, at any time after it was issued, whatever the main thread is   *)
(* doing. Later the loop takes the results that are ready, in any order:   *)
(* a result resolves the promise the caller awaits, which queues the       *)
(* caller's continuation as a microtask. The loop then runs the microtask  *)
(* queue in order until it is empty; a continuation that awaits a value    *)
(* that is already there queues its own continuation behind the others.    *)
(***************************************************************************)
\* The pcs at which a caller awaits the result of an FFI call.
FfiPcs ==
  {"open", "tcgetattr", "cfsetspeed", "tcsetattr", "errno", "strerror",
   "read", "write", "close"}

\* The pcs at which the continuation of a caller awaits a promise of the
\* program that is already settled.
JobPcs ==
  {"errno_value", "strerror_value", "geterrnoString_value", "read_value",
   "read_rejected", "read_string_value", "read_string_rejected", "yield",
   "return", "write_value", "write_rejected", "close_value", "close_rejected"}

InJobs(t) == \E k \in 1..Len(jobs) : jobs[k] = t

\* The microtask at the head of the queue is the continuation of caller t,
\* which waits at one of pcs.
Resumes(t, pcs) == jobs # <<>> /\ Head(jobs) = t /\ task[t].pc \in pcs

\* The microtask of caller t has run and left t as tk.
Continue(t, tk) ==
  /\ jobs' = Tail(jobs) \o (IF tk.pc \in JobPcs THEN <<t>> ELSE <<>>)
  /\ draining' = (jobs' # <<>>)

\* The outcomes of the FFI call caller tk awaits: the value returned, the
\* errno a failure leaves, and the kernel, the device and the buffers of the
\* caller after the call.
Outcome(r, tk, fdt, tty, q) ==
  [ret |-> r.ret, errno |-> r.errno, pointer |-> null, cstring |-> "",
   tk |-> tk, fdtable |-> fdt, dev_tty |-> tty, rx |-> q]

Exec(tk) ==
  LET c == tk.calls[Len(tk.calls)] IN
  CASE c.name = "open" ->
         { Outcome(r, tk,
                   IF r.ret >= 0 THEN [fdtable EXCEPT ![r.ret] = TRUE]
                   ELSE fdtable,
                   dev_tty, rx) :
             r \in UNION {os_open(path) : path \in CString(tk.file)} }
    [] c.name = "tcgetattr" ->
         { Outcome(r,
                   IF r.ret = 0 THEN [tk EXCEPT !.tty = dev_tty] ELSE tk,
                   fdtable, dev_tty, rx) :
             r \in os_tcgetattr(c.fd) }
    [] c.name = "cfsetspeed" ->
         { Outcome(r, [tk EXCEPT !.tty = r.tty], fdtable, dev_tty, rx) :
             r \in libc_cfsetspeed(tk.tty, c.arg) }
    [] c.name = "tcsetattr" ->
         { Outcome(r, tk, fdtable, IF r.ret = 0 THEN tk.tty ELSE dev_tty, rx) :
             r \in os_tcsetattr(c.fd) }
    [] c.name = "read" ->
         { Outcome(r,
                   [tk EXCEPT !.ibuffer =
                      [i \in 1..Len(tk.ibuffer) |->
                         IF i <= r.ret THEN rx[i] ELSE tk.ibuffer[i]]],
                   fdtable, dev_tty,
                   IF r.ret > 0 THEN SubSeq(rx, r.ret + 1, Len(rx)) ELSE rx) :
             r \in os_read(c.fd, c.arg) }
    [] c.name = "write" ->
         { Outcome(r, tk, fdtable, dev_tty, rx) : r \in os_write(c.fd, c.arg) }
    [] c.name = "close" ->
         { Outcome(r, tk,
                   IF Valid(c.fd) THEN [fdtable EXCEPT ![c.fd] = FALSE]
                   ELSE fdtable,
                   dev_tty, rx) :
             r \in os_close(c.fd) }
    [] c.name = "__errno_location" ->
         \* the address of the errno of the thread the call ran on
         { [Outcome([ret |-> 0, errno |-> 0], tk, fdtable, dev_tty, rx)
              EXCEPT !.pointer = tk.thread] }
    [] c.name = "strerror" ->
         { [Outcome([ret |-> 0, errno |-> 0], tk, fdtable, dev_tty, rx)
              EXCEPT !.pointer = 1, !.cstring = libc_strerror(c.arg)] }

\* The FFI call caller t awaits runs on its thread: the kernel and libc act,
\* a failure leaves its errno in that thread, and the value is kept for the
\* event loop. oserrno is history: the errno the last failing call of t left.
ffi_run(t) ==
  /\ task[t].pc \in FfiPcs
  /\ ~InJobs(t)
  /\ ~task[t].ran
  /\ \E o \in Exec(task[t]) :
       /\ fdtable' = o.fdtable
       /\ dev_tty' = o.dev_tty
       /\ rx' = o.rx
       /\ errno' = IF o.ret < 0 THEN [errno EXCEPT ![task[t].thread] = o.errno]
                   ELSE errno
       /\ task' = [task EXCEPT ![t] =
            [o.tk EXCEPT !.ran = TRUE,
                         !.oserrno = IF o.ret < 0 THEN o.errno ELSE @,
                         !.ffi = [ret |-> o.ret, pointer |-> o.pointer,
                                  cstring |-> o.cstring]]]
  /\ UNCHANGED <<hostLE, ports, iters, jobs, draining, close_issued,
                 close_rets, nops>>

\* The event loop takes the result of the FFI call caller t awaits, which
\* has run: the promise of the call is resolved, the continuation of t is
\* queued.
ffi_return(t) ==
  /\ ~draining
  /\ task[t].pc \in FfiPcs
  /\ ~InJobs(t)
  /\ task[t].ran
  /\ LET c == task[t].calls[Len(task[t].calls)]
         ret == task[t].ffi.ret
     IN  /\ close_rets' = IF c.name = "close"
                            THEN [close_rets EXCEPT ![task[t].port] = @ \cup {ret}]
                            ELSE close_rets
         /\ task' = [task EXCEPT ![t].rets = Append(@, ret), ![t].ran = FALSE]
  /\ jobs' = Append(jobs, t)
  /\ UNCHANGED <<hostLE, fdtable, dev_tty, rx, errno, ports, iters, draining,
                 close_issued, nops>>

(***************************************************************************)
(* open(file, options)  (src/main.ts:218-264)                              *)
(***************************************************************************)
OpenFdFailed_mut(fd) == fd < -1

\* if (fd < 0)
OpenFdFailed(fd) == fd < 0

\* Lines 219-223: encode the path, issue open(2).
open(t, file, options, th) ==
  /\ CanStart(t)
  /\ task' = [task EXCEPT ![t] =
       Issue([Invoke("open", 0) EXCEPT !.file = file, !.options = options],
             "open", th,
             Call("open", NoFd, BitOr(BitOr(O_RDWR, O_NOCTTY), O_SYNC)))]
  /\ nops' = nops + 1
  /\ UNCHANGED <<hostLE, fdtable, dev_tty, rx, errno, ports, iters, jobs,
                 draining, close_issued, close_rets>>

\* Lines 225-233: open(2) has returned; throw, or allocate the image and
\* issue tcgetattr.
open_return(t, th) ==
  /\ Resumes(t, {"open"})
  /\ LET fd == task[t].ffi.ret
         tk == IF OpenFdFailed(fd)
                 THEN Geterrno([task[t] EXCEPT !.fd = fd], OpenFailed, th)
                 ELSE Issue([task[t] EXCEPT !.fd = fd,
                                            !.tty = ZeroBuffer(TTY_SIZE)],
                            "tcgetattr", th, Call("tcgetattr", fd, 0))
     IN  /\ task' = [task EXCEPT ![t] = tk]
         /\ Continue(t, tk)
  /\ UNCHANGED <<hostLE, fdtable, dev_tty, rx, errno, ports, iters,
                 close_issued, close_rets, nops>>

GetAttrFailed_mut(ret) == ret > 0

\* if (await library.symbols.tcgetattr(fd, ttyPtr) != 0)
GetAttrFailed(ret) == ret # 0

\* Lines 233-237: tcgetattr has returned; throw, or issue cfsetspeed.
\* tty_os is history: the image as the last FFI call left it.
tcgetattr_return(t, th) ==
  /\ Resumes(t, {"tcgetattr"})
  /\ LET tk0 == [task[t] EXCEPT !.tty_os = task[t].tty]
         tk == IF GetAttrFailed(tk0.ffi.ret)
                 THEN Geterrno(tk0, GetAttributesFailed, th)
                 ELSE Issue(tk0, "cfsetspeed", th,
                            Call("cfsetspeed", NoFd, tk0.options.baudrate))
     IN  /\ task' = [task EXCEPT ![t] = tk]
         /\ Continue(t, tk)
  /\ UNCHANGED <<hostLE, fdtable, dev_tty, rx, errno, ports, iters,
                 close_issued, close_rets, nops>>

\* Lines 237-259: cfsetspeed has returned, its result is dropped; edit the
\* image and issue tcsetattr.
cfsetspeed_return(t, th) ==
  /\ Resumes(t, {"cfsetspeed"})
  /\ LET littleEndian == is_platform_little_endian(hostLE)
         tk == Issue([task[t] EXCEPT
                        !.tty_os = task[t].tty,
                        !.tty = tty_edit(task[t].tty, task[t].options,
                                         littleEndian)],
                     "tcsetattr", th, Call("tcsetattr", task[t].fd, TCSANOW))
     IN  /\ task' = [task EXCEPT ![t] = tk]
         /\ Continue(t, tk)
  /\ UNCHANGED <<hostLE, fdtable, dev_tty, rx, errno, ports, iters,
                 close_issued, close_rets, nops>>

SetAttrFailed_mut(ret) == ret > 0

\* if (await library.symbols.tcsetattr(fd, TCSANOW, ttyPtr) != 0)
SetAttrFailed(ret) == ret # 0

\* Lines 259-263: tcsetattr has returned; throw, or construct the SerialPort
\* and return it.
tcsetattr_return(t, th) ==
  /\ Resumes(t, {"tcsetattr"})
  /\ IF SetAttrFailed(task[t].ffi.ret)
       THEN LET tk == Geterrno(task[t], SetAttributesFailed, th) IN
            /\ task' = [task EXCEPT ![t] = tk]
            /\ Continue(t, tk)
            /\ UNCHANGED <<ports, close_issued, close_rets>>
       ELSE LET tk == Finish(task[t], Ok(<<Len(ports) + 1>>)) IN
            /\ task' = [task EXCEPT ![t] = tk]
            /\ Continue(t, tk)
            /\ ports' = Append(ports,
                 [fd |-> task[t].fd, options |-> task[t].options])
            /\ close_issued' = Append(close_issued, 0)
            /\ close_rets' = Append(close_rets, {})
  /\ UNCHANGED <<hostLE, fdtable, dev_tty, rx, errno, iters, nops>>

(***************************************************************************)
(* errno(), strerror(), geterrnoString()  (src/main.ts:123-143)            *)
(***************************************************************************)
\* Lines 125-129: __errno_location has returned; a null pointer gives 0,
\* another one is the address of the errno of the thread the call ran on,
\* which is read now. errno() returns the number to geterrnoString(), which
\* awaits it.
errno_return(t) ==
  /\ Resumes(t, {"errno"})
  /\ LET ret == task[t].ffi.pointer
         tk == [task[t] EXCEPT !.pc = "errno_value",
                               !.errnum = IF ret = null THEN 0 ELSE errno[ret]]
     IN  /\ task' = [task EXCEPT ![t] = tk]
         /\ Continue(t, tk)
  /\ UNCHANGED <<hostLE, fdtable, dev_tty, rx, errno, ports, iters,
                 close_issued, close_rets, nops>>

\* Line 142 after its await, and line 133: geterrnoString() calls
\* strerror(), which issues strerror(3).
geterrnoString(t, th) ==
  /\ Resumes(t, {"errno_value"})
  /\ LET tk == Issue(task[t], "strerror", th,
                     Call("strerror", NoFd, task[t].errnum))
     IN  /\ task' = [task EXCEPT ![t] = tk]
         /\ Continue(t, tk)
  /\ UNCHANGED <<hostLE, fdtable, dev_tty, rx, errno, ports, iters,
                 close_issued, close_rets, nops>>

\* Lines 134-138: strerror(3) has returned; a null pointer gives the empty
\* string, another one the C string behind it. strerror() returns the text;
\* the promise geterrnoString() returned takes it over in a later microtask.
strerror_return(t) ==
  /\ Resumes(t, {"strerror"})
  /\ LET ret == task[t].ffi.pointer
         tk == [task[t] EXCEPT !.pc = "strerror_value",
                               !.text = IF ret = null THEN ""
                                        ELSE task[t].ffi.cstring]
     IN  /\ task' = [task EXCEPT ![t] = tk]
         /\ Continue(t, tk)
  /\ UNCHANGED <<hostLE, fdtable, dev_tty, rx, errno, ports, iters,
                 close_issued, close_rets, nops>>

\* Line 142: the promise of geterrnoString() is resolved with the text; the
\* throw statement that awaits it goes on in a later microtask.
geterrnoString_return(t) ==
  /\ Resumes(t, {"strerror_value"})
  /\ LET tk == [task[t] EXCEPT !.pc = "geterrnoString_value"] IN
     /\ task' = [task EXCEPT ![t] = tk]
     /\ Continue(t, tk)
  /\ UNCHANGED <<hostLE, fdtable, dev_tty, rx, errno, ports, iters,
                 close_issued, close_rets, nops>>

\* The function whose promise a throw in the FFI-calling function of caller
\* tk rejects: the operation itself, or the read(), write() or close() an
\* outer function of the operation awaits.
Rejected(tk) ==
  IF tk.op \in {"read_string", "read_line"}
    THEN [tk EXCEPT !.pc = "read_rejected"]
  ELSE IF tk.op = "write_string" THEN [tk EXCEPT !.pc = "write_rejected"]
  ELSE IF tk.op = "asyncDispose" THEN [tk EXCEPT !.pc = "close_rejected"]
  ELSE Finish(tk, Err(tk.error, tk.text))

\* Lines 160, 192, 207, 226, 234, 260: throw new Error(`...: ${text}`).
throw_Error(t) ==
  /\ Resumes(t, {"geterrnoString_value"})
  /\ LET tk == Rejected(task[t]) IN
     /\ task' = [task EXCEPT ![t] = tk]
     /\ Continue(t, tk)
  /\ UNCHANGED <<hostLE, fdtable, dev_tty, rx, errno, ports, iters,
                 close_issued, close_rets, nops>>

(***************************************************************************)
(* SerialPort  (src/main.ts:145-210)                                       *)
(***************************************************************************)
\* The descriptors a program passes to the constructor in the model.
CtorFds == {-1, 3}

\* new SerialPort(fd, options): the public constructor stores what it is
\* given and calls nothing.
constructor(fd, options) ==
  /\ nops < MaxOps
  /\ ports' = Append(ports, [fd |-> fd, options |-> options])
  /\ close_issued' = Append(close_issued, 0)
  /\ close_rets' = Append(close_rets, {})
  /\ nops' = nops + 1
  /\ UNCHANGED <<hostLE, fdtable, dev_tty, rx, errno, iters, task, jobs,
                 draining>>

BufferSize_mut(options) ==
  IF options.buffer_size = undefined THEN DefaultBufferSize + 1
  ELSE options.buffer_size

\* this.options.buffer_size ?? 255
BufferSize(options) ==
  IF options.buffer_size = undefined THEN DefaultBufferSize
  ELSE options.buffer_size

\* Lines 153-158: a call of this.read() allocates the buffer and issues
\* read(2) on this.fd.
StartRead(tk, port, th) ==
  Issue([tk EXCEPT !.ibuffer = ZeroBuffer(BufferSize(port.options)),
                   !.calls = <<>>, !.rets = <<>>],
        "read", th, Call("read", port.fd, BufferSize(port.options)))

\* read()
read(t, p, th) ==
  /\ CanStart(t)
  /\ p \in 1..Len(ports)
  /\ task' = [task EXCEPT ![t] = StartRead(Invoke("read", p), ports[p], th)]
  /\ nops' = nops + 1
  /\ UNCHANGED <<hostLE, fdtable, dev_tty, rx, errno, ports, iters, jobs,
                 draining, close_issued, close_rets>>

\* read_string(), up to the await of this.read()
read_string(t, p, th) ==
  /\ CanStart(t)
  /\ p \in 1..Len(ports)
  /\ task' = [task EXCEPT ![t] =
       StartRead(Invoke("read_string", p), ports[p], th)]
  /\ nops' = nops + 1
  /\ UNCHANGED <<hostLE, fdtable, dev_tty, rx, errno, ports, iters, jobs,
                 draining, close_issued, close_rets>>

\* Lines 159-162: read(2) has returned; throw, or return the bytes read,
\* to the caller of the operation or to the read_string() that awaits them.
read_return(t, th) ==
  /\ Resumes(t, {"read"})
  /\ LET rlen == task[t].ffi.ret
         bytes == subarray(task[t].ibuffer, 0, rlen)
         tk == IF rlen < 0 THEN Geterrno(task[t], IoErrorRead, th)
               ELSE IF task[t].op = "read" THEN Finish(task[t], Ok(bytes))
               ELSE [task[t] EXCEPT !.pc = "read_value", !.value = bytes]
     IN  /\ task' = [task EXCEPT ![t] = tk]
         /\ Continue(t, tk)
  /\ UNCHANGED <<hostLE, fdtable, dev_tty, rx, errno, ports, iters,
                 close_issued, close_rets, nops>>

\* Line 166 after its await: read_string() decodes the bytes and returns
\* the text, or passes on the error of read(), to the caller of the
\* operation or to the read_line() generator that awaits it.
read_string_return(t) ==
  /\ Resumes(t, {"read_value", "read_rejected"})
  /\ LET tk == IF task[t].pc = "read_rejected"
                 THEN (IF task[t].op = "read_string"
                         THEN Finish(task[t], Err(task[t].error, task[t].text))
                         ELSE [task[t] EXCEPT !.pc = "read_string_rejected"])
               ELSE IF task[t].op = "read_string"
                 THEN Finish(task[t], Ok(TextDecode(task[t].value)))
               ELSE [task[t] EXCEPT !.pc = "read_string_value",
                                    !.value = TextDecode(task[t].value)]
     IN  /\ task' = [task EXCEPT ![t] = tk]
         /\ Continue(t, tk)
  /\ UNCHANGED <<hostLE, fdtable, dev_tty, rx, errno, ports, iters,
                 close_issued, close_rets, nops>>

\* Lines 186-190: issue write(2) of the whole buffer on this.fd.
StartWrite(tk, port, data, th) ==
  Issue([tk EXCEPT !.data = data], "write", th,
        Call("write", port.fd, Len(data)))

\* write(data)
write(t, p, data, th) ==
  /\ CanStart(t)
  /\ p \in 1..Len(ports)
  /\ task' = [task EXCEPT ![t] =
       StartWrite(Invoke("write", p), ports[p], data, th)]
  /\ nops' = nops + 1
  /\ UNCHANGED <<hostLE, fdtable, dev_tty, rx, errno, ports, iters, jobs,
                 draining, close_issued, close_rets>>

\* write_string(str): lines 200-201
write_string(t, p, str, th) ==
  /\ CanStart(t)
  /\ p \in 1..Len(ports)
  /\ task' = [task EXCEPT ![t] =
       StartWrite(Invoke("write_string", p), ports[p], TextEncode(str), th)]
  /\ nops' = nops + 1
  /\ UNCHANGED <<hostLE, fdtable, dev_tty, rx, errno, ports, iters, jobs,
                 draining, close_issued, close_rets>>

IsShortWrite_mut(wlen, length) == wlen > length

\* if (wlen !== data.length)
IsShortWrite(wlen, length) == wlen # length

\* The function whose promise the end of write() or close() settles with
\* result: the operation itself, or the write_string() or asyncDispose()
\* that awaits it.
Settled(tk, result) ==
  IF tk.op = "write_string"
    THEN [tk EXCEPT !.pc = IF result.status = "ok" THEN "write_value"
                           ELSE "write_rejected",
                    !.error = result.error, !.text = result.text]
  ELSE IF tk.op = "asyncDispose"
    THEN [tk EXCEPT !.pc = IF result.status = "ok" THEN "close_value"
                           ELSE "close_rejected",
                    !.error = result.error, !.text = result.text]
  ELSE Finish(tk, result)

\* Lines 191-196: write(2) has returned.
write_return(t, th) ==
  /\ Resumes(t, {"write"})
  /\ LET wlen == task[t].ffi.ret
         tk == IF wlen < 0 THEN Geterrno(task[t], IoErrorWrite, th)
               ELSE IF IsShortWrite(wlen, Len(task[t].data))
                 THEN Settled(task[t], Err(ShortWrite, ""))
               ELSE Settled(task[t], Ok(<<>>))
     IN  /\ task' = [task EXCEPT ![t] = tk]
         /\ Continue(t, tk)
  /\ UNCHANGED <<hostLE, fdtable, dev_tty, rx, errno, ports, iters,
                 close_issued, close_rets, nops>>

\* Line 201 after its await: write_string() returns what write() did.
write_string_return(t) ==
  /\ Resumes(t, {"write_value", "write_rejected"})
  /\ LET tk == IF task[t].pc = "write_rejected"
                 THEN Finish(task[t], Err(task[t].error, task[t].text))
                 ELSE Finish(task[t], Ok(<<>>))
     IN  /\ task' = [task EXCEPT ![t] = tk]
         /\ Continue(t, tk)
  /\ UNCHANGED <<hostLE, fdtable, dev_tty, rx, errno, ports, iters,
                 close_issued, close_rets, nops>>

\* Line 205: issue close(2) on this.fd.
StartClose(t, op, p, th) ==
  /\ CanStart(t)
  /\ p \in 1..Len(ports)
  /\ task' = [task EXCEPT ![t] =
       Issue(Invoke(op, p), "close", th, Call("close", ports[p].fd, 0))]
  /\ close_issued' = [close_issued EXCEPT ![p] = @ + 1]
  /\ nops' = nops + 1
  /\ UNCHANGED <<hostLE, fdtable, dev_tty, rx, errno, ports, iters, jobs,
                 draining, close_rets>>

\* close()
close(t, p, th) == StartClose(t, "close", p, th)

\* [Symbol.asyncDispose](): await this.close()
asyncDispose(t, p, th) == StartClose(t, "asyncDispose", p, th)

\* Lines 206-208: close(2) has returned.
close_return(t, th) ==
  /\ Resumes(t, {"close"})
  /\ LET tk == IF task[t].ffi.ret < 0 THEN Geterrno(task[t], CloseError, th)
               ELSE Settled(task[t], Ok(<<>>))
     IN  /\ task' = [task EXCEPT ![t] = tk]
         /\ Continue(t, tk)
  /\ UNCHANGED <<hostLE, fdtable, dev_tty, rx, errno, ports, iters,
                 close_issued, close_rets, nops>>

\* Line 149 after its await: asyncDispose() returns, or passes on the error
\* of close().
asyncDispose_return(t) ==
  /\ Resumes(t, {"close_value", "close_rejected"})
  /\ LET tk == IF task[t].pc = "close_rejected"
                 THEN Finish(task[t], Err(task[t].error, task[t].text))
                 ELSE Finish(task[t], Ok(<<>>))
     IN  /\ task' = [task EXCEPT ![t] = tk]
         /\ Continue(t, tk)
  /\ UNCHANGED <<hostLE, fdtable, dev_tty, rx, errno, ports, iters,
                 close_issued, close_rets, nops>>

(***************************************************************************)
(* read_line()  (src/main.ts:169-183) and the async generator object it    *)
(* returns. A generator runs one request at a time: next(), return() and   *)
(* throw() called while it runs wait in its queue.                         *)
(***************************************************************************)
\* History: one more read_string() call of a generator, counted up to
\* MaxReads.
CountRead(n) == IF n < MaxReads THEN n + 1 ELSE n

YieldState_mut == "completed"

\* yield l (line 180) suspends the generator; it does not complete it.
YieldState == "suspendedYield"

\* The states in which a generator takes no request.
Running == {"executing", "awaiting-return"}

\* The values a consumer passes to return(), and the exception it passes to
\* throw(), in the model.
ReturnValues == {<<>>, <<120>>}
Thrown == "thrown by the consumer"

\* read_line(): calling an async generator function creates the generator
\* and runs none of its body. chunks, yielded, reads and cause are history:
\* the text read, the lines yielded, the number of read_string() calls made
\* and what ended the generator.
read_line(p) ==
  /\ Len(iters) < MaxIters
  /\ p \in 1..Len(ports)
  /\ iters' = Append(iters,
       [port |-> p, state |-> "suspendedStart", data |-> <<>>, lines |-> <<>>,
        queue |-> <<>>, chunks |-> <<>>, yielded |-> <<>>, reads |-> 0,
        cause |-> "none"])
  /\ UNCHANGED <<hostLE, fdtable, dev_tty, rx, errno, ports, task, jobs,
                 draining, close_issued, close_rets, nops>>

\* The generator is over: its locals are gone.
Completed(it, cause) ==
  [it EXCEPT !.state = "completed", !.data = <<>>, !.lines = <<>>,
             !.cause = cause]

\* yield l: the line is awaited, the request is answered in a later
\* microtask.
Yield(w, i, t) ==
  LET it == w.iters[i] IN
  [w EXCEPT !.task[t] = [@ EXCEPT !.pc = "yield", !.value = Head(it.lines)],
            !.iters[i] = [it EXCEPT !.state = "executing",
                                    !.lines = Tail(@),
                                    !.yielded = Append(@, Head(it.lines))],
            !.jobs = Append(@, t)]

\* Line 172: the while loop calls read_string().
ReadMore(w, i, t, th) ==
  [w EXCEPT !.task[t] = StartRead(@, ports[w.iters[i].port], th),
            !.iters[i] = [@ EXCEPT !.state = "executing",
                                   !.reads = CountRead(@)]]

\* The generator i, which is not running, takes the request of caller t.
\* next(): a completed generator reports done, a generator suspended at the
\* yield of line 180 goes on with the for loop, otherwise the while loop
\* calls read_string(). return(v): the body, which has no finally block, is
\* abandoned; v is awaited. throw(e): the body, which has no catch block, is
\* abandoned and the request rejected with e.
Request(w, i, t, kind, th) ==
  LET it == w.iters[i] IN
  CASE kind = "next" ->
         IF it.state = "completed"
           THEN [w EXCEPT !.task[t] = Finish(@, [Ok(<<>>) EXCEPT !.done = TRUE])]
         ELSE IF it.lines # <<>> THEN Yield(w, i, t)
         ELSE ReadMore(w, i, t, th)
    [] kind = "return" ->
         [w EXCEPT !.task[t] = [@ EXCEPT !.pc = "return"],
                   !.iters[i] = [Completed(it, "return") EXCEPT
                                   !.state = "awaiting-return"],
                   !.jobs = Append(@, t)]
    [] kind = "throw" ->
         [w EXCEPT !.task[t] = Finish(@, Err(w.task[t].error, "")),
                   !.iters[i] = Completed(it, "throw")]

RECURSIVE Drain(_, _, _)
\* The generator i has stopped running: it takes the requests that wait in
\* its queue, in order, until one makes it run again.
Drain(w, i, th) ==
  IF w.iters[i].queue = <<>> \/ w.iters[i].state \in Running THEN w
  ELSE LET req == Head(w.iters[i].queue) IN
       Drain(Request([w EXCEPT !.iters[i].queue = Tail(@)],
                     i, req.task, req.kind, th),
             i, th)

\* A call of next(), return(v) or throw(e) by caller t with locals tk: the
\* request is taken at once, or queued while the generator runs.
Enqueue(t, tk, i, kind, th) ==
  LET w == [iters |-> iters, task |-> [task EXCEPT ![t] = tk], jobs |-> jobs]
      w1 == IF iters[i].state \in Running
              THEN [w EXCEPT !.task[t].pc = "queued",
                             !.iters[i].queue =
                                Append(@, [task |-> t, kind |-> kind])]
              ELSE Request(w, i, t, kind, th)
  IN  /\ iters' = w1.iters
      /\ task' = w1.task
      /\ jobs' = w1.jobs
      /\ nops' = nops + 1
      /\ UNCHANGED <<hostLE, fdtable, dev_tty, rx, errno, ports, draining,
                     close_issued, close_rets>>

\* it.next()
next(t, i, th) ==
  /\ CanStart(t)
  /\ i \in 1..Len(iters)
  /\ Enqueue(t, [Invoke("read_line", iters[i].port) EXCEPT !.iter = i],
             i, "next", th)

\* it.return(v)
return(t, i, v, th) ==
  /\ CanStart(t)
  /\ i \in 1..Len(iters)
  /\ Enqueue(t, [Invoke("return", iters[i].port) EXCEPT !.iter = i, !.value = v],
             i, "return", th)

\* it.throw(e)
throw(t, i, e, th) ==
  /\ CanStart(t)
  /\ i \in 1..Len(iters)
  /\ Enqueue(t, [Invoke("throw", iters[i].port) EXCEPT !.iter = i, !.error = e],
             i, "throw", th)

\* A microtask of the generator of caller t has run and left the callers,
\* the generators and the microtask queue as w; the generator then takes
\* the requests that wait for it.
Resume(t, w, th) ==
  LET w1 == Drain(w, task[t].iter, th) IN
  /\ iters' = w1.iters
  /\ task' = w1.task
  /\ jobs' = w1.jobs
  /\ draining' = (w1.jobs # <<>>)
  /\ UNCHANGED <<hostLE, fdtable, dev_tty, rx, errno, ports, close_issued,
                 close_rets, nops>>

\* Lines 172-181 after the await of read_string(): an error ends the
\* generator and rejects the request; an empty text makes the loop read
\* again; otherwise the text is split and the first complete line, if
\* there is one, is yielded.
read_line_resume(t, th) ==
  /\ Resumes(t, {"read_string_value", "read_string_rejected"})
  /\ LET i == task[t].iter
         it == iters[i]
         w == [iters |-> iters, task |-> task, jobs |-> Tail(jobs)]
         text == task[t].value
         lines == split(it.data \o text, NL)
         w1 == [w EXCEPT !.iters[i] = [it EXCEPT !.data = PopLast(lines),
                                                 !.lines = PopRest(lines),
                                                 !.chunks = @ \o text]]
     IN
     Resume(t,
       IF task[t].pc = "read_string_rejected"
         THEN [w EXCEPT !.task[t] = Finish(@, Err(task[t].error, task[t].text)),
                        !.iters[i] = Completed(it, "error")]
       ELSE IF Len(text) = 0 THEN ReadMore(w, i, t, th)
       ELSE IF PopRest(lines) = <<>> THEN ReadMore(w1, i, t, th)
       ELSE Yield(w1, i, t),
       th)

\* Line 180 after the await of the line: the request is answered with the
\* line and the generator is suspended.
yield_return(t, th) ==
  /\ Resumes(t, {"yield"})
  /\ Resume(t,
       [iters |-> [iters EXCEPT ![task[t].iter].state = YieldState],
        task |-> [task EXCEPT ![t] = Finish(@, Ok(task[t].value))],
        jobs |-> Tail(jobs)],
       th)

\* return(v) after the await of v: the request is answered with v and done,
\* the generator is completed.
return_return(t, th) ==
  /\ Resumes(t, {"return"})
  /\ Resume(t,
       [iters |-> [iters EXCEPT ![task[t].iter].state = "completed"],
        task |-> [task EXCEPT ![t] =
                    Finish(@, [Ok(task[t].value) EXCEPT !.done = TRUE])],
        jobs |-> Tail(jobs)],
       th)

(***************************************************************************)
(* Inputs and specifications.                                              *)
(***************************************************************************)
\* A termios image: the four flag words in host byte order, then c_line and
\* the control characters.
Image(iflag, oflag, cflag, lflag, le) ==
  LET cc == [i \in 1..TTY_SIZE |-> IF i > 16 /\ i <= 49 THEN (7 * i) % 256 ELSE 0]
      w(word, k) == IF le THEN word[4 - k] ELSE word[k + 1]
  IN  [i \in 1..TTY_SIZE |->
         IF i <= 4 THEN w(iflag, i - 1)
         ELSE IF i <= 8 THEN w(oflag, i - 5)
         ELSE IF i <= 12 THEN w(cflag, i - 9)
         ELSE IF i <= 16 THEN w(lflag, i - 13)
         ELSE cc[i]]

Options(baudrate, timeout, min, size) ==
  [baudrate |-> baudrate, timeout_in_deciseconds |-> timeout,
   minimum_number_of_chars_read |-> min, buffer_size |-> size]

\* The line settings of a terminal in its default (cooked) mode:
\* ICRNL | IXON, OPOST | ONLCR, B38400 | CS8 | CREAD | HUPCL, ISIG | ICANON | ECHO...
CookedWords ==
  [iflag |-> <<0, 0, 5, 0>>, oflag |-> <<0, 0, 0, 5>>,
   cflag |-> <<0, 0, 4, 191>>, lflag |-> <<0, 0, 138, 59>>]

InitWith(orders, images, inputs) ==
  /\ hostLE \in orders
  /\ fdtable = [fd \in Fds |-> FALSE]
  /\ \E w \in images :
       dev_tty = Image(w.iflag, w.oflag, w.cflag, w.lflag, hostLE)
  /\ rx \in inputs
  /\ errno = [th \in Threads |-> 0]
  /\ ports = <<>>
  /\ iters = <<>>
  /\ task = [t \in Tasks |-> IdleTask]
  /\ jobs = <<>>
  /\ draining = FALSE
  /\ close_issued = <<>>
  /\ close_rets = <<>>
  /\ nops = 0

\* The microtasks of caller t, with the FFI calls they issue running on th.
Microtask(t, th) ==
  \/ open_return(t, th)
  \/ tcgetattr_return(t, th)
  \/ cfsetspeed_return(t, th)
  \/ tcsetattr_return(t, th)
  \/ errno_return(t)
  \/ geterrnoString(t, th)
  \/ strerror_return(t)
  \/ geterrnoString_return(t)
  \/ throw_Error(t)
  \/ read_return(t, th)
  \/ read_string_return(t)
  \/ read_line_resume(t, th)
  \/ yield_return(t, th)
  \/ return_return(t, th)
  \/ write_return(t, th)
  \/ write_string_return(t)
  \/ close_return(t, th)
  \/ asyncDispose_return(t)

\* Every operation a caller of T may start while fewer than N were started,
\* every FFI call that may run or return and every microtask that may run,
\* with the FFI calls running on the threads TH, open() called with a file
\* of F and options of O, write() with data of WD and write_string() with a
\* string of WS.
Step(T, TH, F, O, WD, WS, N) ==
  \E t \in T, th \in TH :
    \/ \E file \in F, options \in O : nops < N /\ open(t, file, options, th)
    \/ \E fd \in CtorFds, options \in O : nops < N /\ constructor(fd, options)
    \/ \E p \in PortIds :
         \/ nops < N /\ read(t, p, th)
         \/ nops < N /\ read_string(t, p, th)
         \/ read_line(p)
         \/ \E data \in WD : nops < N /\ write(t, p, data, th)
         \/ \E str \in WS : nops < N /\ write_string(t, p, str, th)
         \/ nops < N /\ close(t, p, th)
         \/ nops < N /\ asyncDispose(t, p, th)
    \/ \E i \in IterIds :
         \/ nops < N /\ next(t, i, th)
         \/ \E v \in ReturnValues : nops < N /\ return(t, i, v, th)
         \/ nops < N /\ throw(t, i, Thrown, th)
    \/ ffi_run(t)
    \/ ffi_return(t)
    \/ Microtask(t, th)

\* The life cycle of ports under concurrent callers, which start MaxOpsShort
\* operations, on a little-endian host, every FFI call running on thread 1.
Files == {DevicePath, MissingPath}

Init == InitWith({TRUE}, {CookedWords}, {<<65, 10>>})

Next ==
  Step(Tasks, {1}, Files, {Options(B115200, 10, 0, 2)}, {<<65>>}, {<<233>>},
       MaxOpsShort)

Spec == Init /\ [][Next]_vars

\* One caller, which starts MaxOps operations one after another.
NextSequential ==
  Step({1}, {1}, Files, {Options(B115200, 10, 0, 2)}, {<<65>>}, {<<233>>},
       MaxOps)

SpecSequential == Init /\ [][NextSequential]_vars

\* One caller, each FFI call running on either thread.
NextThreads ==
  Step({1}, Threads, Files, {Options(B115200, 10, 0, 2)}, {<<65>>}, {<<233>>},
       MaxOpsShort)

SpecThreads == Init /\ [][NextThreads]_vars

\* open() alone, once per behaviour, over many images, both byte orders,
\* many options and both files.
CflagSamples ==
  { <<0, 0, 0, 0>>, <<255, 255, 255, 255>>, <<128, 0, 0, 0>>, <<0, 0, 4, 191>>,
    <<128, 0, 1, 80>>, <<0, 0, 0, 32>>, <<18, 52, 86, 120>>, <<237, 203, 169, 135>> }

TermiosImages ==
  { [iflag |-> f.iflag, oflag |-> f.oflag, cflag |-> c, lflag |-> f.lflag] :
      f \in { CookedWords,
              [iflag |-> <<255, 255, 255, 255>>, oflag |-> <<255, 255, 255, 255>>,
               lflag |-> <<255, 255, 255, 255>>] },
      c \in CflagSamples }

SlotSamples == {-1, 0, 1, 10, 255, 256, 300}

\* Speeds outside the Baudrate enum: B0, a rate in baud, and numbers that
\* are no speed.
OtherSpeeds == {0, 9600, 16, 12345}

TermiosOptions ==
  { Options(b, 10, 0, undefined) : b \in Baudrate \cup OtherSpeeds }
    \cup { Options(B115200, tm, mn, undefined) : tm \in SlotSamples, mn \in SlotSamples }

InitTermios == InitWith(BOOLEAN, TermiosImages, {<<>>})

NextTermios ==
  \/ /\ nops = 0
     /\ \E file \in Files, options \in TermiosOptions :
          open(1, file, options, 1)
  \/ ffi_run(1)
  \/ ffi_return(1)
  \/ open_return(1, 1)
  \/ tcgetattr_return(1, 1)
  \/ cfsetspeed_return(1, 1)
  \/ tcsetattr_return(1, 1)
  \/ errno_return(1)
  \/ geterrnoString(1, 1)
  \/ strerror_return(1)
  \/ geterrnoString_return(1)
  \/ throw_Error(1)

SpecTermios == InitTermios /\ [][NextTermios]_vars

\* One caller of read() and write() on one port, over several buffer sizes,
\* received bytes and data.
IOOptions == {Options(B115200, 10, 0, size) : size \in {undefined, 0, 2}}

InitIO ==
  InitWith({TRUE}, {CookedWords}, {<<>>, <<65>>, <<65, 10, 66>>, <<195, 169, 10>>})

NextIO ==
  \/ /\ nops = 0
     /\ \E options \in IOOptions : open(1, DevicePath, options, 1)
  \/ ffi_run(1)
  \/ ffi_return(1)
  \/ open_return(1, 1)
  \/ tcgetattr_return(1, 1)
  \/ cfsetspeed_return(1, 1)
  \/ tcsetattr_return(1, 1)
  \/ errno_return(1)
  \/ geterrnoString(1, 1)
  \/ strerror_return(1)
  \/ geterrnoString_return(1)
  \/ throw_Error(1)
  \/ read(1, 1, 1)
  \/ read_string(1, 1, 1)
  \/ read_return(1, 1)
  \/ read_string_return(1)
  \/ \E data \in {<<>>, <<65, 10, 66>>} : write(1, 1, data, 1)
  \/ \E str \in {<<233, 10>>, <<55357>>} : write_string(1, 1, str, 1)
  \/ write_return(1, 1)
  \/ write_string_return(1)
  \/ close(1, 1, 1)
  \/ asyncDispose(1, 1, 1)
  \/ close_return(1, 1)
  \/ asyncDispose_return(1)

SpecIO == InitIO /\ [][NextIO]_vars

\* One consumer of one read_line() generator, over many received byte
\* sequences.
RECURSIVE SeqsUpTo(_, _)
SeqsUpTo(S, n) ==
  IF n = 0 THEN {<<>>}
  ELSE LET shorter == SeqsUpTo(S, n - 1)
       IN  shorter \cup {Append(q, x) : q \in shorter, x \in S}

\* "ABC\nDE\nF"
ExampleInput == <<65, 66, 67, 10, 68, 69, 10, 70>>

\* "\n", "A", and the two bytes of U+00E9
LineInputs == {ExampleInput} \cup SeqsUpTo({10, 65, 195, 169}, MaxRx)

InitLines == InitWith({TRUE}, {CookedWords}, LineInputs)

NextLines ==
  \/ /\ nops = 0
     /\ \E options \in {Options(B115200, 10, 0, undefined), Options(B115200, 10, 0, 3)} :
          open(1, DevicePath, options, 1)
  \/ ffi_run(1)
  \/ ffi_return(1)
  \/ open_return(1, 1)
  \/ tcgetattr_return(1, 1)
  \/ cfsetspeed_return(1, 1)
  \/ tcsetattr_return(1, 1)
  \/ errno_return(1)
  \/ geterrnoString(1, 1)
  \/ strerror_return(1)
  \/ geterrnoString_return(1)
  \/ throw_Error(1)
  \/ read_line(1)
  \/ next(1, 1, 1)
  \/ \E v \in ReturnValues : return(1, 1, v, 1)
  \/ throw(1, 1, Thrown, 1)
  \/ read_return(1, 1)
  \/ read_string_return(1)
  \/ read_line_resume(1, 1)
  \/ yield_return(1, 1)
  \/ return_return(1, 1)

SpecLines == InitLines /\ [][NextLines]_vars


(***************************************************************************)
(* The claims.                                                             *)
(***************************************************************************)
\* A close() of port p has returned without error.
ClosedOk(p) == 0 \in close_rets[p]

\* A close() of port p has failed (CloseError).
CloseFailed(p) == \E r \in close_rets[p] : r < 0

\* Caller t starts an operation in this step.
Starts(t) == task[t].pc \in {"idle", "done"} /\ task'[t] # task[t]

\* Caller t's operation ends in this step.
Ends(t) == task[t].pc \notin {"idle", "done"} /\ task'[t].pc = "done"

IoOps == {"read", "read_string", "read_line", "write", "write_string"}
CloseOps == {"close", "asyncDispose"}

\* The FFI calls named name among calls.
CallsOf(calls, name) == {i \in 1..Len(calls) : calls[i].name = name}

\* C1: once a close() of a port has succeeded, every read, write,
\* read_string, write_string and read_line step started on that port ends at
\* once with ClosedHandle, having issued no OS call.
C1_ClosedHandleAfterClose ==
  [][\A t \in Tasks :
       (/\ Starts(t)
        /\ task'[t].op \in IoOps
        /\ ClosedOk(task'[t].port))
       => (/\ task'[t].pc = "done"
           /\ task'[t].result.error = ClosedHandle
           /\ task'[t].calls = <<>>)]_vars

\* C2: the OS close call is issued at most once through each SerialPort,
\* whatever sequence of close() calls and disposals it gets.
C2_CloseIssuedAtMostOnce ==
  \A p \in 1..Len(ports) : close_issued[p] <= 1

\* C3: when open() raises GetAttributesFailed or SetAttributesFailed, the
\* descriptor it had obtained from the OS is closed at that moment.
C3_FailedOpenClosesDescriptor ==
  [][\A t \in Tasks :
       (/\ task[t].op = "open"
        /\ Ends(t)
        /\ task'[t].result.error \in {GetAttributesFailed, SetAttributesFailed})
       => ~fdtable'[task'[t].fd]]_vars

\* C4: when open() ends, a negative result of the OS open has given
\* OpenFailed, with no further call on that value and no SerialPort created; a
\* non-zero tcgetattr has given GetAttributesFailed and a non-zero tcsetattr
\* SetAttributesFailed, each without any later step of the sequence; and the
\* SerialPort an open() returns wraps the value the OS open returned, which
\* is not negative.
C4_OpenErrorMapping ==
  [][\A t \in Tasks :
          (task[t].op = "open" /\ Ends(t)) =>
            LET tk == task'[t]
                c == tk.calls
                r == tk.rets
            IN  /\ c[1].name = "open"
                /\ r[1] < 0 =>
                     /\ tk.result.error = OpenFailed
                     /\ \A i \in 1..Len(c) :
                          /\ c[i].fd # r[1]
                          /\ c[i].name \in {"open", "__errno_location", "strerror"}
                     /\ ports' = ports
                /\ (r[1] >= 0 /\ r[2] # 0) =>
                     /\ tk.result.error = GetAttributesFailed
                     /\ CallsOf(c, "cfsetspeed") = {}
                     /\ CallsOf(c, "tcsetattr") = {}
                     /\ ports' = ports
                /\ (r[1] >= 0 /\ r[2] = 0 /\ r[4] # 0) =>
                     /\ tk.result.error = SetAttributesFailed
                     /\ ports' = ports
                /\ tk.result.status = "ok" =>
                     /\ r[1] >= 0
                     /\ ports' = Append(ports, [fd |-> r[1],
                                                options |-> tk.options])]_vars

\* An open() has ended with OpenFailed after the OS open returned -1 and the
\* two calls that render errno.
C4_Witness ==
  \E t \in Tasks :
    /\ task[t].op = "open" /\ task[t].pc = "done"
    /\ task[t].rets[1] = -1
    /\ task[t].result.error = OpenFailed
    /\ task[t].result.text = "Permission denied"
    /\ Len(task[t].calls) = 3

\* The word at byte offset off of an image, as the host reads it.
NativeWord(img, off) ==
  IF hostLE THEN <<img[off + 4], img[off + 3], img[off + 2], img[off + 1]>>
            ELSE <<img[off + 1], img[off + 2], img[off + 3], img[off + 4]>>

\* Bit k (0 = least significant) of an unsigned word.
WordBit(w, k) == (w[4 - (k \div 8)] \div (2 ^ (k % 8))) % 2

\* open() of caller t has issued tcsetattr, with the image task[t].tty.
Committed(t) ==
  /\ task[t].op = "open"
  /\ Len(task[t].calls) >= 4
  /\ task[t].calls[4].name = "tcsetattr"

\* C5: for every speed, of the Baudrate enum or not, the control-flags word
\* open() commits has CS8 in the character-size field (bits 4, 5), CSTOPB
\* (6), PARENB (8) and CRTSCTS (31) clear, CREAD (7) and CLOCAL (11) set, is
\* four bytes of 0..255, and has every other bit as tcgetattr and cfsetspeed
\* left it.
C5_ControlFlags ==
  \A t \in Tasks :
    Committed(t) =>
      LET new == NativeWord(task[t].tty, 8)
          old == NativeWord(task[t].tty_os, 8)
      IN  /\ \A d \in 1..4 : new[d] \in 0..255
          /\ WordBit(new, 4) = 1 /\ WordBit(new, 5) = 1
          /\ WordBit(new, 6) = 0
          /\ WordBit(new, 8) = 0
          /\ WordBit(new, 31) = 0
          /\ WordBit(new, 7) = 1
          /\ WordBit(new, 11) = 1
          /\ \A k \in (0..31) \ {4, 5, 6, 7, 8, 11, 31} :
               WordBit(new, k) = WordBit(old, k)

\* A successful open(), with a speed of the enum, on a big-endian host of a
\* device whose control flags had CRTSCTS, PARENB and CSTOPB set and a
\* character size other than CS8.
C5_Witness ==
  \E t \in Tasks :
    /\ Committed(t)
    /\ task[t].pc = "done" /\ task[t].result.status = "ok"
    /\ task[t].options.baudrate \in Baudrate
    /\ ~hostLE
    /\ LET old == NativeWord(task[t].tty_os, 8)
       IN  /\ WordBit(old, 31) = 1 /\ WordBit(old, 8) = 1 /\ WordBit(old, 6) = 1
           /\ WordBit(old, 5) = 0 /\ WordBit(old, 11) = 0

\* C6: for timeout_in_deciseconds and minimum_number_of_chars_read in
\* 0..255, the image open() commits holds the first at byte 17 + 5 and the
\* second at byte 17 + 6.
C6_SlotsRoundTrip ==
  \A t \in Tasks :
    (/\ Committed(t)
     /\ task[t].options.timeout_in_deciseconds \in 0..255
     /\ task[t].options.minimum_number_of_chars_read \in 0..255)
    => /\ task[t].tty[17 + 5 + 1] = task[t].options.timeout_in_deciseconds
       /\ task[t].tty[17 + 6 + 1] = task[t].options.minimum_number_of_chars_read

\* An image committed with timeout 255 and minimum 1.
C6_Witness ==
  \E t \in Tasks :
    /\ Committed(t)
    /\ task[t].options.timeout_in_deciseconds = 255
    /\ task[t].options.minimum_number_of_chars_read = 1
    /\ task[t].tty[23] = 255 /\ task[t].tty[24] = 1

RECURSIVE Terminated(_)
\* The concatenation of lines, each followed by "\n".
Terminated(lines) ==
  IF lines = <<>> THEN <<>>
  ELSE Head(lines) \o <<NL>> \o Terminated(Tail(lines))

HasNL(str) == \E k \in 1..Len(str) : str[k] = NL

\* C7: as long as a read_line() generator has not ended, the lines it has
\* yielded, then those it has split off and not yet yielded, each followed
\* by "\n", then its pending tail, are the concatenation of the text chunks
\* it has read; the lines an ended generator had yielded, each followed by
\* "\n", are the beginning of that concatenation; no line and no tail
\* contains "\n"; and while the generator waits for a read every complete
\* line has been yielded.
C7_ReadLineSegments ==
  \A i \in 1..Len(iters) :
    LET it == iters[i]
        out == Terminated(it.yielded)
    IN
    /\ it.cause = "none" =>
         out \o Terminated(it.lines) \o it.data = it.chunks
    /\ Len(out) <= Len(it.chunks) /\ SubSeq(it.chunks, 1, Len(out)) = out
    /\ \A k \in 1..Len(it.yielded) : ~HasNL(it.yielded[k])
    /\ \A k \in 1..Len(it.lines) : ~HasNL(it.lines[k])
    /\ ~HasNL(it.data)
    /\ \A t \in Tasks :
         (task[t].op = "read_line" /\ task[t].iter = i /\ task[t].pc = "read")
           => it.lines = <<>>

\* The reads "AB", "C\n", "DE\n", "F" have yielded "ABC" and "DE" and left
\* "F" pending, the generator waiting for the next read.
C7_Witness ==
  /\ Len(iters) = 1
  /\ iters[1].yielded = << <<65, 66, 67>>, <<68, 69>> >>
  /\ iters[1].data = <<70>>
  /\ iters[1].lines = <<>>
  /\ iters[1].state = "executing"
  /\ iters[1].chunks = ExampleInput
  /\ task[1].pc = "read"
  /\ Len(task[1].ibuffer) = 3

\* C8: a write() that has ended issued exactly one OS write, of the whole
\* buffer on the port's descriptor; it returned without error iff the OS
\* reported data.length bytes, failed with ShortWrite on a smaller
\* non-negative count and with IoError on a negative result.
C8_WriteOutcome ==
  \A t \in Tasks :
    (task[t].op \in {"write", "write_string"} /\ task[t].pc = "done") =>
      LET tk == task[t]
          n == Len(tk.data)
          wlen == tk.rets[1]
      IN  /\ CallsOf(tk.calls, "write") = {1}
          /\ tk.calls[1] = Call("write", ports[tk.port].fd, n)
          /\ (tk.result.status = "ok") <=> (wlen = n)
          /\ (wlen >= 0 /\ wlen < n) => tk.result.error = ShortWrite
          /\ wlen < 0 => tk.result.error = IoErrorWrite

\* A write of three bytes of which the OS took one has failed with
\* ShortWrite.
C8_Witness ==
  \E t \in Tasks :
    /\ task[t].op = "write" /\ task[t].pc = "done"
    /\ Len(task[t].data) = 3 /\ task[t].rets[1] = 1
    /\ task[t].result.error = ShortWrite

\* C9: a read() that has ended issued exactly one OS read, on the port's
\* descriptor, asking for buffer_size bytes (255 when absent); on a result
\* n >= 0 it returned the first n bytes of the buffer without error, and it
\* failed, with IoError, iff the result was negative.
C9_ReadOutcome ==
  \A t \in Tasks :
    (task[t].op = "read" /\ task[t].pc = "done") =>
      LET tk == task[t]
          size == ports[tk.port].options.buffer_size
          n == tk.rets[1]
      IN  /\ CallsOf(tk.calls, "read") = {1}
          /\ tk.calls[1] = Call("read", ports[tk.port].fd,
                                IF size = undefined THEN 255 ELSE size)
          /\ n >= 0 => /\ n <= tk.calls[1].arg
                       /\ tk.result.status = "ok"
                       /\ Len(tk.result.value) = n
                       /\ \A k \in 1..n : tk.result.value[k] = tk.ibuffer[k]
          /\ (tk.result.status = "error") <=> (n < 0)
          /\ n < 0 => tk.result.error \in IoError

\* A read() without buffer_size has returned the three bytes "A\nB".
C9_Witness ==
  \E t \in Tasks :
    /\ task[t].op = "read" /\ task[t].pc = "done"
    /\ ports[task[t].port].options.buffer_size = undefined
    /\ task[t].rets[1] = 3
    /\ task[t].result.value = <<65, 10, 66>>

\* C10: once a close() of a port has failed with CloseError the port is
\* Closed: every read or write started on it ends at once with ClosedHandle,
\* and no operation started on it issues an OS call, a further OS close
\* included.
C10_ClosedAfterFailedClose ==
  [][\A t \in Tasks :
       (/\ Starts(t)
        /\ task'[t].op \in IoOps \cup CloseOps
        /\ CloseFailed(task'[t].port))
       => (/\ task'[t].pc = "done"
           /\ task'[t].calls = <<>>
           /\ close_issued' = close_issued
           /\ task'[t].op \in IoOps => task'[t].result.error = ClosedHandle)]_vars

\* Caller t hands an OS read or write to the FFI in this step.
IssuesIo(t) ==
  task'[t].pc \in {"read", "write"} /\ task[t].pc \notin {"read", "write"}

\* C11: a SerialPort issues no OS read or write once its OS close has been
\* issued, so a close() concurrent with a read() or a read_line() step never
\* lets the port operate on a descriptor the OS may have handed out again.
C11_NoIoAfterCloseIssued ==
  [][\A t \in Tasks :
       IssuesIo(t) => close_issued[task'[t].port] = 0]_vars

\* The SerialPorts that hold descriptor fd; every SerialPort can issue OS
\* calls on the descriptor it holds.
Holders(fd) == {p \in 1..Len(ports) : ports[p].fd = fd}

\* C12: every open descriptor is held by at most one SerialPort able to
\* issue OS calls on it.
C12_ExclusiveOwnership ==
  \A fd \in Fds : fdtable[fd] => Cardinality(Holders(fd)) <= 1

\* C12, the parts about the field and the close path: the descriptor a
\* SerialPort holds never changes, and an OS close is issued on it only by
\* close() and by a disposal.
C12_DescriptorFixedAndClosedByClose ==
  [][/\ \A p \in 1..Len(ports) : ports'[p] = ports[p]
     /\ \A t \in Tasks :
          (task'[t].pc = "close" /\ task[t].pc # "close") =>
            /\ task'[t].op \in CloseOps
            /\ task'[t].calls = <<Call("close", ports[task'[t].port].fd, 0)>>
     /\ \A t \in Tasks :
          task'[t].op \in IoOps => CallsOf(task'[t].calls, "close") = {}]_vars

\* v clamped into 0..255.
Clamp(v) == IF v < 0 THEN 0 ELSE IF v > 255 THEN 255 ELSE v

\* C13: an image that open() commits holds no wrapped-around slot value: a
\* timeout_in_deciseconds or minimum_number_of_chars_read outside 0..255
\* that was not rejected is stored clamped into 0..255.
C13_NoSlotWrapAround ==
  \A t \in Tasks :
    Committed(t) =>
      /\ task[t].tty[17 + VTIME + 1] = Clamp(task[t].options.timeout_in_deciseconds)
      /\ task[t].tty[17 + VMIN + 1] =
           Clamp(task[t].options.minimum_number_of_chars_read)

\* Caller t runs the body of generator i.
Runs(t, i) == task[t].op = "read_line" /\ task[t].iter = i

\* The pcs of a caller whose next() waits for a read of the generator, or
\* for the text of its error.
ReadingPcs ==
  {"read", "read_value", "read_string_value", "errno", "errno_value",
   "strerror", "strerror_value", "geterrnoString_value", "read_rejected",
   "read_string_rejected"}

\* A generator is not started, waiting on a read (or on the text of its
\* error), yielding a line or suspended at a yield, or ended, by one of
\* causes.
C14_States(causes) ==
  \A i \in 1..Len(iters) :
    LET it == iters[i] IN
    /\ it.state \in {"suspendedStart", "executing", "suspendedYield",
                    "awaiting-return", "completed"}
    /\ it.state = "executing" =>
         \E t \in Tasks : Runs(t, i) /\ task[t].pc \in ReadingPcs \cup {"yield"}
    /\ it.lines # <<>> =>
         \/ it.state = "suspendedYield"
         \/ \E t \in Tasks : Runs(t, i) /\ task[t].pc = "yield"
    /\ it.state \in {"awaiting-return", "completed"} <=> it.cause # "none"
    /\ it.cause \in causes \cup {"none"}

\* The steps of generators: the end, the report of done, and a read that
\* brought no text.
C14_Steps ==
  /\ \A i \in 1..Len(iters) :
       (iters[i].cause = "none" /\ iters'[i].cause # "none") =>
         \/ /\ iters'[i].cause = "error"
            /\ \E t \in Tasks :
                 /\ Runs(t, i) /\ task[t].pc = "read_string_rejected"
                 /\ task[t].error = IoErrorRead
                 /\ task'[t].pc = "done"
                 /\ task'[t].result.status = "error"
                 /\ task'[t].result.error = IoErrorRead
         \/ /\ iters'[i].cause \in {"return", "throw"}
            /\ \E t \in Tasks :
                 task'[t].op = iters'[i].cause /\ task'[t].iter = i
  /\ \A t \in Tasks :
       (task'[t].pc = "done" /\ task'[t].result.done /\ task'[t] # task[t]) =>
         iters'[task'[t].iter].cause # "none"
  /\ \A t \in Tasks, i \in 1..Len(iters) :
       (/\ Runs(t, i) /\ task[t].pc = "read_string_value"
        /\ Len(task[t].value) = 0
        /\ task'[t].pc # task[t].pc)
       => /\ iters'[i].yielded = iters[i].yielded
          /\ iters'[i].chunks = iters[i].chunks
          /\ iters'[i].reads = CountRead(iters[i].reads)
          /\ iters'[i].state = "executing"
          /\ task'[t].pc = "read"
          /\ ~task'[t].result.done

\* C14 as stated: a read_line() generator never completes normally: it ends
\* only in the step that raises a read error, a consumer is told done only
\* by a generator that such an error ended, and a read of zero bytes yields
\* nothing and is followed by the next read; at any time the generator is
\* waiting on a read, holding lines to yield or ended by a read error.
C14_NeverCompletesNormally == []C14_States({"error"}) /\ [][C14_Steps]_vars

\* C14, amended: a read_line() generator ends only in the step that raises
\* a read error or by a return() or throw() call of its consumer, a consumer
\* is told done only by a generator ended in one of these ways, and a read
\* of zero bytes yields nothing and is followed by the next read; at any
\* time the generator is waiting on a read, holding lines to yield or ended.
C14_EndsByErrorOrConsumer ==
  []C14_States({"error", "return", "throw"}) /\ [][C14_Steps]_vars

\* The generator has read zero bytes, read "A\n" and yielded "A"; its
\* consumer has then called return(), and the next() after that was told
\* done.
C14_Witness ==
  /\ Len(iters) = 1
  /\ iters[1].reads = 2
  /\ iters[1].chunks = <<65, 10>>
  /\ iters[1].yielded = << <<65>> >>
  /\ iters[1].state = "completed"
  /\ iters[1].cause = "return"
  /\ task[1].op = "read_line" /\ task[1].pc = "done"
  /\ task[1].result.done

\* Caller t awaits an FFI call that has not returned.
Awaits(t) == task[t].pc \in FfiPcs /\ ~InJobs(t)

\* The FFI calls of a successful open(), in order.
OpenSequence == <<"open", "tcgetattr", "cfsetspeed", "tcsetattr">>

\* The names of the first n of calls.
Names(calls, n) == [k \in 1..n |-> calls[k].name]

\* The calls that render an error message.
ErrnoCalls == {"__errno_location", "strerror"}

\* The number of calls of an open() that belong to OpenSequence.
SeqLen(calls) ==
  Cardinality({k \in 1..Len(calls) : calls[k].name \notin ErrnoCalls})

\* C15: in every open(), the FFI calls other than the two that render an
\* error are a prefix of open, tcgetattr, cfsetspeed, tcsetattr and come
\* first; every call but the last has returned before the next was issued;
\* a failed open, tcgetattr or tcsetattr is the last call of the sequence;
\* the image is as tcgetattr left it until cfsetspeed has run, as cfsetspeed
\* left it until cfsetspeed has returned, and is the edited image when
\* tcsetattr is issued; and the SerialPorts are those of the open() calls in
\* which open, tcgetattr and tcsetattr all succeeded.
C15_OpenOrder ==
  /\ \A t \in Tasks :
       task[t].op = "open" =>
         LET c == task[t].calls
             r == task[t].rets
             n == SeqLen(c)
         IN  /\ n \in 1..4
             /\ Names(c, n) = SubSeq(OpenSequence, 1, n)
             /\ \A k \in (n + 1)..Len(c) : c[k].name \in ErrnoCalls
             /\ Len(r) = IF Awaits(t) THEN Len(c) - 1 ELSE Len(c)
             /\ \A k \in 2..n : c[k].fd \in {NoFd, r[1]}
             /\ (Len(r) >= 1 /\ r[1] < 0) => n = 1
             /\ (n >= 2 /\ Len(r) >= 2 /\ r[2] # 0) => n = 2
             /\ (n = 3 /\ Awaits(t) /\ ~task[t].ran) =>
                  task[t].tty = task[t].tty_os
             /\ (n = 3 /\ (task[t].ran \/ ~Awaits(t))) =>
                  \E o \in libc_cfsetspeed(task[t].tty_os,
                                            task[t].options.baudrate) :
                    /\ task[t].tty = o.tty
                    /\ task[t].ffi.ret = o.ret
                    /\ ~Awaits(t) => r[3] = o.ret
             /\ n = 4 => task[t].tty =
                  tty_edit(task[t].tty_os, task[t].options,
                           is_platform_little_endian(hostLE))
             /\ task[t].result.status = "ok" <=>
                  (/\ task[t].pc = "done"
                   /\ Len(r) = 4 /\ r[1] >= 0 /\ r[2] = 0 /\ r[4] = 0)
  /\ Len(ports) =
       Cardinality({t \in Tasks :
                      task[t].op = "open" /\ task[t].result.status = "ok"})

\* An open() has returned a SerialPort after exactly the four calls, and the
\* device holds the edited image, which differs from the one read.
C15_Witness ==
  \E t \in Tasks :
    /\ task[t].op = "open" /\ task[t].pc = "done"
    /\ task[t].result.status = "ok"
    /\ Names(task[t].calls, Len(task[t].calls)) = OpenSequence
    /\ task[t].rets = <<3, 0, 0, 0>>
    /\ Len(ports) = 1 /\ ports[1].fd = 3
    /\ dev_tty = task[t].tty
    /\ task[t].tty # task[t].tty_os

\* The OS read that caller t awaits inside a read_line() step returns in
\* this step.
LineReadReturns(t) ==
  /\ task[t].op = "read_line" /\ task[t].pc = "read"
  /\ task'[t].pc # "read"

\* C16: once the OS close of a port has returned, every OS read that
\* returns to a read_line() iteration on that port has failed: the iteration
\* goes on to raise the read error and yields no further line.
C16_ReadLineEndsAfterClose ==
  [][\A t \in Tasks :
       (LineReadReturns(t) /\ close_rets[task[t].port] # {})
       => /\ task'[t].pc = "errno"
          /\ task'[t].error = IoErrorRead
          /\ iters'[task[t].iter].yielded = iters[task[t].iter].yielded]_vars

\* C17: an open() has returned a SerialPort iff the OS open, tcgetattr and
\* tcsetattr succeeded, whatever cfsetspeed returned; no error of open() comes
\* from cfsetspeed; and tcsetattr is issued after either result of cfsetspeed.
C17_SpeedResultIgnored ==
  \A t \in Tasks :
    task[t].op = "open" =>
      LET c == task[t].calls
          r == task[t].rets
      IN  /\ task[t].pc = "done" =>
               /\ task[t].result.status = "ok" <=>
                    (r[1] >= 0 /\ r[2] = 0 /\ Len(r) = 4 /\ r[4] = 0)
               /\ task[t].result.status = "error" =>
                    task[t].result.error \in
                      {OpenFailed, GetAttributesFailed, SetAttributesFailed}
          /\ (Len(r) >= 3 /\ c[3].name = "cfsetspeed"
                /\ task[t].pc # "cfsetspeed") =>
               /\ Len(c) >= 4
               /\ c[4] = Call("tcsetattr", r[1], TCSANOW)

\* cfsetspeed returned -1 for a number that is no speed, and open() has
\* committed the image and returned a SerialPort.
C17_Witness ==
  \E t \in Tasks :
    /\ task[t].op = "open" /\ task[t].pc = "done"
    /\ task[t].calls[3].name = "cfsetspeed"
    /\ task[t].rets = <<3, 0, -1, 0>>
    /\ task[t].result.status = "ok"
    /\ Len(ports) = 1
    /\ dev_tty = task[t].tty

\* C18: the image open() commits has the input-flags word (offset 0), the
\* output-flags word (offset 4) and the local-flags word (offset 12) equal
\* to zero.
C18_FlagWordsZeroed ==
  \A t \in Tasks :
    Committed(t) =>
      \A off \in {0, 4, 12} : NativeWord(task[t].tty, off) = <<0, 0, 0, 0>>

\* open() has committed an image, on a big-endian host, for a device whose
\* input, output and local flags had every bit set.
C18_Witness ==
  \E t \in Tasks :
    /\ Committed(t)
    /\ ~hostLE
    /\ task[t].pc = "done" /\ task[t].result.status = "ok"
    /\ \A off \in {0, 4, 12} :
         NativeWord(task[t].tty_os, off) = <<255, 255, 255, 255>>
    /\ dev_tty = task[t].tty

\* The OS call that a SerialPort operation wraps.
Wraps(op) ==
  CASE op \in {"read", "read_string"} -> "read"
    [] op \in {"write", "write_string"} -> "write"
    [] op \in CloseOps -> "close"

\* C19: of the operations one caller issues one after another on a
\* SerialPort, at most one FFI call is outstanding at any time, an operation
\* starts only when every call of the one before has returned, and each
\* read, write and close issues exactly one OS read, write or close, as its
\* first call, on the port's descriptor, and no other OS call on it.
C19_Sequential ==
  /\ [] \A t \in Tasks :
          task[t].op \in {"read", "read_string", "write", "write_string"}
                           \cup CloseOps =>
            LET c == task[t].calls IN
            /\ Len(c) - Len(task[t].rets) = IF Awaits(t) THEN 1 ELSE 0
            /\ CallsOf(c, Wraps(task[t].op)) = {1}
            /\ c[1].fd = ports[task[t].port].fd
            /\ \A k \in 2..Len(c) : c[k].name \in ErrnoCalls
  /\ [][\A t \in Tasks :
          Starts(t) => Len(task[t].rets) = Len(task[t].calls)]_vars

\* Four operations issued one after another have returned, a read that took
\* two bytes among them, the last one a close of the port.
C19_Witness ==
  /\ nops = 4
  /\ task[1].op = "close" /\ task[1].pc = "done"
  /\ task[1].result.status = "ok"
  /\ close_issued[1] = 1
  /\ rx = <<66>>

\* The errors whose message ends with the text of geterrnoString().
ErrnoErrors ==
  {OpenFailed, GetAttributesFailed, SetAttributesFailed, IoErrorRead,
   IoErrorWrite, CloseError}

\* C20: the text in an error raised by a failing open step, read, write or
\* close is the description of the errno that the operation's own failing OS
\* call set.
C20_OwnErrno ==
  \A t \in Tasks :
    (task[t].pc = "done" /\ task[t].result.error \in ErrnoErrors) =>
      /\ task[t].errnum = task[t].oserrno
      /\ task[t].result.text = libc_strerror(task[t].oserrno)

====
